---- MODULE Spec2Model ----
(***************************************************************************)
(* Model of the ado lab CLI (lab/py/ado_cli): config-path resolution       *)
(* (config.py, meta.py), output rendering (output.py) and the echo command *)
(* (cli.py).                                                               *)
(*                                                                         *)
(* Text is modelled as a sequence of atoms.  An atom is either a single    *)
(* character ("/", ".", "h", ...) or a word that the modelled inputs never *)
(* split ("ado", "config", "yaml", "null", ...).  No atom of a text domain *)
(* is a prefix of another, so two modelled texts are equal exactly when    *)
(* the character strings they stand for are equal.                         *)
(* Path.exists() is modelled as membership in the set fs of existing       *)
(* paths: it answers for every path and raises nothing.                    *)
(* Optional values: None is <<>>, a present value x is <<x>>.              *)
(***************************************************************************)
EXTENDS Integers, Sequences, FiniteSets, TLC

VARIABLES environ, fs, call

vars == <<environ, fs, call>>

\* ------------------------------------------------------------------ bounds

\* Longest free-form text drawn for a path argument or variable.
MaxLen == 2

\* Most items of a payload (elements of a list, entries of a mapping).
MaxItems == 2

\* Most words of an echo message.
MaxWords == 2

\* Largest --repeat tried.
MaxRepeat == 2

\* ------------------------------------------------------------ text helpers

None == <<>>

Some(x) == <<x>>

\* Python truthiness of an Optional[str]: None and "" are falsy.
Truthy(opt) == opt # None /\ opt[1] # <<>>

RECURSIVE Texts(_, _)
\* All texts over alphabet of length at most n.
Texts(alphabet, n) ==
    IF n = 0 THEN {<<>>}
    ELSE LET shorter == Texts(alphabet, n - 1)
         IN  shorter \cup {Append(t, a) : t \in shorter, a \in alphabet}

RECURSIVE JoinTexts(_, _)
\* sep.join(items)
JoinTexts(items, sep) ==
    IF items = <<>> THEN <<>>
    ELSE IF Len(items) = 1 THEN items[1]
    ELSE items[1] \o sep \o JoinTexts(Tail(items), sep)

\* ------------------------------------------------------- pathlib.PosixPath

RECURSIVE Components(_, _)
\* s.split("/"), cur being the component under construction.
Components(s, cur) ==
    IF s = <<>> THEN <<cur>>
    ELSE IF Head(s) = "/" THEN <<cur>> \o Components(Tail(s), <<>>)
    ELSE Components(Tail(s), Append(cur, Head(s)))

\* The root pathlib keeps: "" for a relative path, "//" for exactly two
\* leading slashes, "/" for one or for three and more.
PathRoot(s) ==
    IF Len(s) >= 1 /\ s[1] = "/"
    THEN IF Len(s) >= 2 /\ s[2] = "/" /\ ~(Len(s) >= 3 /\ s[3] = "/")
         THEN <<"/", "/">>
         ELSE <<"/">>
    ELSE <<>>

\* Path(s): the root and the components, empty and "." components dropped.
Path(s) ==
    [root  |-> PathRoot(s),
     parts |-> SelectSeq(Components(s, <<>>),
                         LAMBDA c : c # <<>> /\ c # <<".">>)]

\* str(p)
PathStr(p) ==
    IF p.root = <<>> /\ p.parts = <<>> THEN <<".">>
    ELSE p.root \o JoinTexts(p.parts, <<"/">>)

\* p / name, for a name holding no separator.
JoinPath(p, name) == [p EXCEPT !.parts = Append(@, name)]

\* candidate.exists() on the modelled filesystem.
Exists(p, disk) == p \in disk

\* Path.home(): the HOME variable of the environment, as a Path.
PathHome(env) == Path(env.HOME)

\* ---------------------------------------------------------------- config.py

DOT_CONFIG == <<".", "config">>

ADO == <<"ado">>

CONFIG_YAML == <<"config", ".", "yaml">>

DOT_ADO == <<".", "ado">>

\* The home directory default_search_paths builds on: Path(home or Path.home()).
HomeDir(home, env) == IF home # None THEN home[1] ELSE PathHome(env)

\* A variant that ignores the home argument and always asks Path.home().
default_search_paths_env_home(home, env) ==
    LET home_dir == PathHome(env)
        xdg      == env.XDG_CONFIG_HOME
    IN  << IF Truthy(xdg)
           THEN JoinPath(JoinPath(Path(xdg[1]), ADO), CONFIG_YAML)
           ELSE JoinPath(JoinPath(JoinPath(home_dir, DOT_CONFIG), ADO), CONFIG_YAML),
           JoinPath(JoinPath(home_dir, DOT_ADO), CONFIG_YAML) >>

default_search_paths(home, env) ==
    LET home_dir == HomeDir(home, env)
        xdg      == env.XDG_CONFIG_HOME
    IN  << IF Truthy(xdg)
           THEN JoinPath(JoinPath(Path(xdg[1]), ADO), CONFIG_YAML)
           ELSE JoinPath(JoinPath(JoinPath(home_dir, DOT_CONFIG), ADO), CONFIG_YAML),
           JoinPath(JoinPath(home_dir, DOT_ADO), CONFIG_YAML) >>

\* A variant that scans the candidates from the last to the first.
FirstExisting_last(paths, disk) ==
    LET hits == {i \in 1..Len(paths) : Exists(paths[i], disk)}
    IN  IF hits = {} THEN None
        ELSE Some(paths[CHOOSE i \in hits : \A j \in hits : i >= j])

\* A variant that returns the first candidate without asking whether it exists.
FirstExisting_unchecked(paths, disk) ==
    IF paths = <<>> THEN None ELSE Some(paths[1])

\* The first candidate of paths that exists, as an Optional[Path].
FirstExisting(paths, disk) ==
    LET hits == {i \in 1..Len(paths) : Exists(paths[i], disk)}
    IN  IF hits = {} THEN None
        ELSE Some(paths[CHOOSE i \in hits : \A j \in hits : i <= j])

\* A variant that tests env_path before explicit_path.
resolve_config_path_env_first(explicit_path, env_path, home, env, disk) ==
    LET search_paths == default_search_paths(home, env)
    IN  IF Truthy(env_path)
        THEN [resolved |-> Some(Path(env_path[1])),
              search   |-> <<Path(env_path[1])>> \o search_paths]
        ELSE IF Truthy(explicit_path)
        THEN [resolved |-> Some(Path(explicit_path[1])),
              search   |-> <<Path(explicit_path[1])>> \o search_paths]
        ELSE [resolved |-> FirstExisting(search_paths, disk),
              search   |-> search_paths]

resolve_config_path(explicit_path, env_path, home, env, disk) ==
    LET search_paths == default_search_paths(home, env)
    IN  IF Truthy(explicit_path)
        THEN [resolved |-> Some(Path(explicit_path[1])),
              search   |-> <<Path(explicit_path[1])>> \o search_paths]
        ELSE IF Truthy(env_path)
        THEN [resolved |-> Some(Path(env_path[1])),
              search   |-> <<Path(env_path[1])>> \o search_paths]
        ELSE [resolved |-> FirstExisting(search_paths, disk),
              search   |-> search_paths]

\* ------------------------------------------------------------------ meta.py

PathStrs(paths) == [i \in 1..Len(paths) |-> PathStr(paths[i])]

\* A variant that never reads ADO_CONFIG.
collect_env_info_without_env(explicit_config, env, disk) ==
    LET home_dir == PathHome(env)
        r        == resolve_config_path(explicit_config, None,
                                        Some(home_dir), env, disk)
    IN  [config_path    |-> IF r.resolved # None
                            THEN Some(PathStr(r.resolved[1])) ELSE None,
         config_sources |-> PathStrs(r.search),
         home_dir       |-> PathStr(home_dir)]

\* The fields of collect_env_info's result that depend on the resolution
\* (cache_dir and env are copies of the environment and are left out).
collect_env_info(explicit_config, env, disk) ==
    LET home_dir   == PathHome(env)
        env_config == env.ADO_CONFIG
        r          == resolve_config_path(explicit_config, env_config,
                                          Some(home_dir), env, disk)
    IN  [config_path    |-> IF r.resolved # None
                            THEN Some(PathStr(r.resolved[1])) ELSE None,
         config_sources |-> PathStrs(r.search),
         home_dir       |-> PathStr(home_dir)]

\* ---------------------------------------------------------- payload values

\* A Python value of a payload: t is its type, v its content as text (the
\* decimal digits of an int, "true"/"false" of a bool, empty for None and for
\* an object, the ISO text of a datetime.date).
StrValue(text) == [t |-> "str", v |-> text]

StrValues(texts) == [i \in 1..Len(texts) |-> StrValue(texts[i])]

IntValue(digits) == [t |-> "int", v |-> digits]

BoolValue(word) == [t |-> "bool", v |-> word]

NoneValue == [t |-> "none", v |-> <<>>]

DateValue == [t |-> "date", v |-> <<"2020-01-01">>]

\* An instance of an arbitrary class: no serializer represents it.
ObjectValue == [t |-> "object", v |-> <<>>]

List(items) == [kind |-> "list", items |-> items]

Dict(items) == [kind |-> "dict", items |-> items]

Digits == {"1"}

IsDigits(text) == text # <<>> /\ \A i \in 1..Len(text) : text[i] \in Digits

\* ---------------------------------------------------- json.dumps(indent=2)

RECURSIVE JsonEscape(_)
\* The body of a JSON string literal: quote, backslash and newline escaped.
JsonEscape(text) ==
    IF text = <<>> THEN <<>>
    ELSE (CASE Head(text) = "\"" -> <<"\\", "\"">>
            [] Head(text) = "\\" -> <<"\\", "\\">>
            [] Head(text) = "\n" -> <<"\\", "n">>
            [] OTHER             -> <<Head(text)>>) \o JsonEscape(Tail(text))

JsonQuote(text) == <<"\"">> \o JsonEscape(text) \o <<"\"">>

JsonRepresentable(x) == x.t \in {"str", "int", "bool", "none"}

JsonValue(x) ==
    CASE x.t = "str"  -> JsonQuote(x.v)
      [] x.t = "none" -> <<"null">>
      [] OTHER        -> x.v

\* A mapping key: str as is, int, bool and None through their JSON text.
JsonKey(x) == IF x.t = "str" THEN JsonQuote(x.v) ELSE JsonQuote(JsonValue(x))

JsonIndent == <<"\n", " ", " ">>

JsonItem(payload, i) ==
    IF payload.kind = "list" THEN JsonValue(payload.items[i])
    ELSE JsonKey(payload.items[i].key) \o <<":", " ">>
         \o JsonValue(payload.items[i].val)

JsonOpen(payload) == IF payload.kind = "list" THEN <<"[">> ELSE <<"{">>

JsonClose(payload) == IF payload.kind = "list" THEN <<"]">> ELSE <<"}">>

PayloadScalars(payload) ==
    IF payload.kind = "list"
    THEN {payload.items[i] : i \in 1..Len(payload.items)}
    ELSE UNION {{payload.items[i].key, payload.items[i].val} :
                i \in 1..Len(payload.items)}

\* json.dumps(payload, indent=2): the text, or the exception raised.
json_dumps(payload) ==
    IF \E x \in PayloadScalars(payload) : ~JsonRepresentable(x)
    THEN [error |-> Some("TypeError"), text |-> None]
    ELSE [error |-> None,
          text  |-> Some(
             IF payload.items = <<>>
             THEN JsonOpen(payload) \o JsonClose(payload)
             ELSE JsonOpen(payload)
                  \o JoinTexts([i \in 1..Len(payload.items) |->
                                   JsonIndent \o JsonItem(payload, i)], <<",">>)
                  \o <<"\n">> \o JsonClose(payload))]

\* ------------------------------------------------------------- json.loads

JsonPunct == {"[", "]", "{", "}", ",", ":"}

JsonSpace == {" ", "\n"}

Token(k, s) == [k |-> k, s |-> s]

RECURSIVE JsonUnescape(_)
JsonUnescape(body) ==
    IF body = <<>> THEN <<>>
    ELSE IF Head(body) = "\\" /\ Len(body) >= 2
    THEN <<IF body[2] = "n" THEN "\n" ELSE body[2]>>
         \o JsonUnescape(Tail(Tail(body)))
    ELSE <<Head(body)>> \o JsonUnescape(Tail(body))

RECURSIVE StringEnd(_, _)
\* Index of the quote closing a string literal whose body starts at i, or 0.
StringEnd(s, i) ==
    IF i > Len(s) THEN 0
    ELSE IF s[i] = "\\" THEN StringEnd(s, i + 2)
    ELSE IF s[i] = "\"" THEN i
    ELSE StringEnd(s, i + 1)

RECURSIVE PlainEnd(_, _)
\* Index after the bare word that starts at i: the next punctuation, space
\* or quote, or the end of the text.
PlainEnd(s, i) ==
    IF i > Len(s) THEN Len(s) + 1
    ELSE IF s[i] \in JsonPunct \cup JsonSpace \cup {"\""} THEN i
    ELSE PlainEnd(s, i + 1)

RECURSIVE JsonLex(_)
JsonLex(s) ==
    IF s = <<>> THEN <<>>
    ELSE IF Head(s) \in JsonSpace THEN JsonLex(Tail(s))
    ELSE IF Head(s) \in JsonPunct
    THEN <<Token("punct", <<Head(s)>>)>> \o JsonLex(Tail(s))
    ELSE IF Head(s) = "\""
    THEN LET n == StringEnd(s, 2)
         IN  IF n = 0 THEN <<Token("bad", s)>>
             ELSE <<Token("quoted", JsonUnescape(SubSeq(s, 2, n - 1)))>>
                  \o JsonLex(SubSeq(s, n + 1, Len(s)))
    ELSE LET n == PlainEnd(s, 2)
         IN  <<Token("plain", SubSeq(s, 1, n - 1))>>
             \o JsonLex(SubSeq(s, n, Len(s)))

\* The value a JSON token stands for; t = "bad" when it stands for none.
JsonScalar(tok) ==
    CASE tok.k = "quoted"                         -> StrValue(tok.s)
      [] tok.k = "plain" /\ tok.s = <<"null">>    -> NoneValue
      [] tok.k = "plain" /\ tok.s \in {<<"true">>, <<"false">>} -> BoolValue(tok.s)
      [] tok.k = "plain" /\ IsDigits(tok.s)       -> IntValue(tok.s)
      [] OTHER                                    -> [t |-> "bad", v |-> tok.s]

IsPunct(tok, c) == tok = Token("punct", <<c>>)

RECURSIVE DictFromPairs(_, _)
\* A Python dict filled in order: a repeated key keeps its first position
\* and takes the last value.
DictFromPairs(pairs, acc) ==
    IF pairs = <<>> THEN acc
    ELSE LET p    == Head(pairs)
             hits == {i \in 1..Len(acc) : acc[i].key = p.key}
         IN  DictFromPairs(Tail(pairs),
                 IF hits = {} THEN Append(acc, p)
                 ELSE [i \in 1..Len(acc) |->
                          IF i \in hits THEN p ELSE acc[i]])

\* json.loads(text) for the texts json_dumps writes: Some(value), or None
\* when the text is not a JSON array or object of scalars.
json_loads(text) ==
    LET toks == JsonLex(text)
        n    == Len(toks)
    IN  IF n < 2 THEN None
        ELSE IF IsPunct(toks[1], "[") /\ IsPunct(toks[n], "]")
        THEN IF n = 2 THEN Some(List(<<>>))
             ELSE IF n % 2 = 1
                     /\ (\A i \in 1..((n - 1) \div 2) :
                            /\ JsonScalar(toks[2 * i]).t # "bad"
                            /\ (i > 1 => IsPunct(toks[2 * i - 1], ",")))
             THEN Some(List([i \in 1..((n - 1) \div 2) |-> JsonScalar(toks[2 * i])]))
             ELSE None
        ELSE IF IsPunct(toks[1], "{") /\ IsPunct(toks[n], "}")
        THEN IF n = 2 THEN Some(Dict(<<>>))
             ELSE IF n % 4 = 1
                     /\ (\A i \in 1..((n - 1) \div 4) :
                            /\ toks[4 * i - 2].k = "quoted"
                            /\ IsPunct(toks[4 * i - 1], ":")
                            /\ JsonScalar(toks[4 * i]).t # "bad"
                            /\ (i > 1 => IsPunct(toks[4 * i - 3], ",")))
             THEN Some(Dict(DictFromPairs(
                      [i \in 1..((n - 1) \div 4) |->
                          [key |-> JsonScalar(toks[4 * i - 2]),
                           val |-> JsonScalar(toks[4 * i])]], <<>>)))
             ELSE None
        ELSE None

\* ------------------------------------- yaml.safe_dump(sort_keys=False)

\* The tag YAML 1.1 resolves a plain scalar to.
YamlImplicit(text) ==
    CASE text \in {<<>>, <<"~">>, <<"null">>, <<"Null">>, <<"NULL">>} -> "none"
      [] text \in {<<"true">>, <<"True">>, <<"TRUE">>,
                   <<"false">>, <<"False">>, <<"FALSE">>}            -> "bool"
      [] IsDigits(text)                                              -> "int"
      [] text = <<"2020-01-01">>                                     -> "date"
      [] OTHER                                                       -> "str"

\* Characters that cannot start a plain scalar.
YamlIndicators == {"\"", "'", "[", "]", "{", "}", ",", "#", "&", "*", "!", "|", ">", "%", "@"}

\* Whether the emitter may write a str as a plain scalar.
YamlPlainOk(text) ==
    /\ text # <<>>
    /\ YamlImplicit(text) = "str"
    /\ Head(text) \notin YamlIndicators \cup {" "}
    /\ text[Len(text)] # " "
    /\ \A i \in 1..Len(text) : text[i] # "\n"

RECURSIVE YamlDouble(_)
\* The body of a single-quoted scalar: each quote doubled.
YamlDouble(text) ==
    IF text = <<>> THEN <<>>
    ELSE (IF Head(text) = "'" THEN <<"'", "'">> ELSE <<Head(text)>>)
         \o YamlDouble(Tail(text))

YamlRepresentable(x) == x.t \in {"str", "int", "bool", "none", "date"}

YamlValue(x) ==
    CASE x.t = "str"  -> IF YamlPlainOk(x.v) THEN x.v
                         ELSE <<"'">> \o YamlDouble(x.v) \o <<"'">>
      [] x.t = "none" -> <<"null">>
      [] OTHER        -> x.v

YamlItem(payload, i) ==
    IF payload.kind = "list"
    THEN <<"-", " ">> \o YamlValue(payload.items[i]) \o <<"\n">>
    ELSE YamlValue(payload.items[i].key) \o <<":", " ">>
         \o YamlValue(payload.items[i].val) \o <<"\n">>

\* The entries of a mapping sorted by key when all keys are strings, as
\* sort_keys=True would have them ("1" sorts before "h").
SortedItems(items) ==
    IF \A i \in 1..Len(items) : items[i].key.t = "str"
    THEN LET rank(k) == IF k.v = <<"1">> THEN 1 ELSE 2
             perms   == {f \in [1..Len(items) -> 1..Len(items)] :
                            \A i, j \in 1..Len(items) : i # j => f[i] # f[j]}
             sorted  == CHOOSE f \in perms :
                            \A i, j \in 1..Len(items) :
                               i < j => rank(items[f[i]].key) <= rank(items[f[j]].key)
         IN  [i \in 1..Len(items) |-> items[sorted[i]]]
    ELSE items

\* A variant without sort_keys=False: mapping keys come out sorted.
yaml_safe_dump_sorted(payload) ==
    LET p == IF payload.kind = "dict" THEN Dict(SortedItems(payload.items))
             ELSE payload
    IN  IF \E x \in PayloadScalars(p) : ~YamlRepresentable(x)
        THEN [error |-> Some("RepresenterError"), text |-> None]
        ELSE [error |-> None,
              text  |-> Some(
                 IF p.items = <<>>
                 THEN (IF p.kind = "list" THEN <<"[", "]">> ELSE <<"{", "}">>)
                      \o <<"\n">>
                 ELSE JoinTexts([i \in 1..Len(p.items) |-> YamlItem(p, i)], <<>>))]

\* yaml.safe_dump(payload, sort_keys=False): the text, or the exception.
yaml_safe_dump(payload) ==
    IF \E x \in PayloadScalars(payload) : ~YamlRepresentable(x)
    THEN [error |-> Some("RepresenterError"), text |-> None]
    ELSE [error |-> None,
          text  |-> Some(
             IF payload.items = <<>>
             THEN (IF payload.kind = "list" THEN <<"[", "]">> ELSE <<"{", "}">>)
                  \o <<"\n">>
             ELSE JoinTexts([i \in 1..Len(payload.items) |-> YamlItem(payload, i)],
                            <<>>))]

\* --------------------------------------------------------- yaml.safe_load

RECURSIVE Lines(_, _)
\* The lines of a text, each ended by "\n"; cur is the line under construction.
Lines(s, cur) ==
    IF s = <<>> THEN (IF cur = <<>> THEN <<>> ELSE <<cur>>)
    ELSE IF Head(s) = "\n" THEN <<cur>> \o Lines(Tail(s), <<>>)
    ELSE Lines(Tail(s), Append(cur, Head(s)))

RECURSIVE YamlUndouble(_)
YamlUndouble(body) ==
    IF body = <<>> THEN <<>>
    ELSE IF Head(body) = "'" /\ Len(body) >= 2 /\ body[2] = "'"
    THEN <<"'">> \o YamlUndouble(Tail(Tail(body)))
    ELSE <<Head(body)>> \o YamlUndouble(Tail(body))

RECURSIVE QuoteEnd(_, _)
\* Index of the quote closing a single-quoted scalar whose body starts at i,
\* or 0: a doubled quote stands for a quote of the body.
QuoteEnd(s, i) ==
    IF i > Len(s) THEN 0
    ELSE IF s[i] = "'"
    THEN IF i < Len(s) /\ s[i + 1] = "'" THEN QuoteEnd(s, i + 2) ELSE i
    ELSE QuoteEnd(s, i + 1)

RECURSIVE ColonAt(_, _)
\* Index, from i on, of the ":" of a ": " mapping indicator, or 0.
ColonAt(s, i) ==
    IF i >= Len(s) THEN 0
    ELSE IF s[i] = ":" /\ s[i + 1] = " " THEN i
    ELSE ColonAt(s, i + 1)

\* The value of one scalar of the text.
YamlScalar(text) ==
    IF text # <<>> /\ Head(text) = "'"
    THEN IF QuoteEnd(text, 2) = Len(text)
         THEN StrValue(YamlUndouble(SubSeq(text, 2, Len(text) - 1)))
         ELSE [t |-> "bad", v |-> text]
    ELSE CASE YamlImplicit(text) = "none" -> NoneValue
           [] YamlImplicit(text) = "str"  -> StrValue(text)
           [] OTHER                       -> [t |-> YamlImplicit(text), v |-> text]

\* Where the key of a mapping line ends: the index of its ":".
KeyEnd(line) ==
    IF line # <<>> /\ Head(line) = "'"
    THEN LET q == QuoteEnd(line, 2)
         IN  IF q # 0 /\ q + 2 <= Len(line) /\ line[q + 1] = ":" /\ line[q + 2] = " "
             THEN q + 1 ELSE 0
    ELSE ColonAt(line, 1)

IsListLine(line) == Len(line) >= 2 /\ line[1] = "-" /\ line[2] = " "

\* yaml.safe_load(text) for the texts yaml_safe_dump writes: Some(value), or
\* None when the text is not a block sequence or mapping of scalars.
yaml_safe_load(text) ==
    LET lines == Lines(text, <<>>)
        n     == Len(lines)
    IN  IF lines = << <<"[", "]">> >> THEN Some(List(<<>>))
        ELSE IF lines = << <<"{", "}">> >> THEN Some(Dict(<<>>))
        ELSE IF n = 0 THEN None
        ELSE IF \A i \in 1..n : IsListLine(lines[i])
        THEN LET items == [i \in 1..n |->
                              YamlScalar(SubSeq(lines[i], 3, Len(lines[i])))]
             IN  IF \E i \in 1..n : items[i].t = "bad" THEN None
                 ELSE Some(List(items))
        ELSE IF \A i \in 1..n : KeyEnd(lines[i]) # 0
        THEN LET pairs == [i \in 1..n |->
                    [key |-> YamlScalar(SubSeq(lines[i], 1, KeyEnd(lines[i]) - 1)),
                     val |-> YamlScalar(SubSeq(lines[i], KeyEnd(lines[i]) + 2,
                                               Len(lines[i])))]]
             IN  IF \E i \in 1..n : pairs[i].key.t = "bad" \/ pairs[i].val.t = "bad"
                 THEN None
                 ELSE Some(Dict(DictFromPairs(pairs, <<>>)))
        ELSE None

\* ---------------------------------------------------------------- output.py

JSON == <<"json">>

YAML == <<"yaml">>

TEXT == <<"text">>

OUTPUT_CHOICES == {TEXT, JSON, YAML}

\* Calling the caller's render_text(): it returns its text or raises.  A
\* result of format_output holds the text returned (value) or the exception
\* that left it (error), and how often it called render_text and a serializer.
RenderText(render_text) ==
    IF render_text.raises
    THEN [value |-> None, error |-> Some("RenderTextError"),
          render_calls |-> 1, dump_calls |-> 0]
    ELSE [value |-> Some(render_text.returns), error |-> None,
          render_calls |-> 1, dump_calls |-> 0]

\* str.upper() and str.lower(), atom by atom.
UpperAtom(a) ==
    CASE a = "a" -> "A" [] a = "b" -> "B" [] a = "null" -> "NULL"
      [] a = "json" -> "JSON" [] a = "yaml" -> "YAML" [] a = "text" -> "TEXT"
      [] OTHER -> a

LowerAtom(a) ==
    CASE a = "A" -> "a" [] a = "B" -> "b" [] a = "NULL" -> "null"
      [] a = "JSON" -> "json" [] a = "YAML" -> "yaml" [] a = "TEXT" -> "text"
      [] OTHER -> a

Upper(text) == [i \in 1..Len(text) |-> UpperAtom(text[i])]

Lower(text) == [i \in 1..Len(text) |-> LowerAtom(text[i])]

\* A variant that compares the format without regard to case.
format_output_ignoring_case(format, payload, render_text) ==
    IF Lower(format) = JSON
    THEN LET r == json_dumps(payload)
         IN  [value |-> r.text, error |-> r.error, render_calls |-> 0, dump_calls |-> 1]
    ELSE IF Lower(format) = YAML
    THEN LET r == yaml_safe_dump(payload)
         IN  [value |-> r.text, error |-> r.error, render_calls |-> 0, dump_calls |-> 1]
    ELSE RenderText(render_text)

\* A variant that falls back to render_text when a serializer raises.
format_output_fallback(format, payload, render_text) ==
    LET r == IF format = JSON THEN json_dumps(payload) ELSE yaml_safe_dump(payload)
    IN  IF format \in {JSON, YAML} /\ r.error = None
        THEN [value |-> r.text, error |-> r.error, render_calls |-> 0, dump_calls |-> 1]
        ELSE [RenderText(render_text) EXCEPT
                 !.dump_calls = IF format \in {JSON, YAML} THEN 1 ELSE 0]

format_output(format, payload, render_text) ==
    IF format = JSON
    THEN LET r == json_dumps(payload)
         IN  [value |-> r.text, error |-> r.error, render_calls |-> 0, dump_calls |-> 1]
    ELSE IF format = YAML
    THEN LET r == yaml_safe_dump(payload)
         IN  [value |-> r.text, error |-> r.error, render_calls |-> 0, dump_calls |-> 1]
    ELSE RenderText(render_text)

\* ------------------------------------------------------------- cli.py: echo

\* A variant without the check for conflicting flags.
echo_no_conflict_check(message, upper, lower, repeat, output) ==
    LET joined0 == JoinTexts(message, <<" ">>)
        joined1 == IF upper THEN Upper(joined0) ELSE joined0
        joined  == IF lower THEN Lower(joined1) ELSE joined1
        values  == [i \in 1..repeat |-> joined]
        r       == format_output(Lower(output), List(StrValues(values)),
                       [raises |-> FALSE, returns |-> JoinTexts(values, <<"\n">>)])
    IN  [error |-> r.error, format_calls |-> 1, values |-> values,
         rendered |-> r.value,
         stdout |-> IF r.value # None THEN r.value[1] \o <<"\n">> ELSE <<>>]

\* A variant that repeats the message once too often.
echo_repeat_off_by_one(message, upper, lower, repeat, output) ==
    IF upper /\ lower
    THEN [error |-> Some("UsageError"), format_calls |-> 0, values |-> <<>>,
          rendered |-> None, stdout |-> <<>>]
    ELSE LET joined0 == JoinTexts(message, <<" ">>)
             joined1 == IF upper THEN Upper(joined0) ELSE joined0
             joined  == IF lower THEN Lower(joined1) ELSE joined1
             values  == [i \in 1..(repeat + 1) |-> joined]
             r       == format_output(Lower(output), List(StrValues(values)),
                            [raises |-> FALSE, returns |-> JoinTexts(values, <<"\n">>)])
         IN  [error |-> r.error, format_calls |-> 1, values |-> values,
              rendered |-> r.value,
              stdout |-> IF r.value # None THEN r.value[1] \o <<"\n">> ELSE <<>>]

\* The echo command: its exception if any, the number of format_output
\* calls, the values built, the rendered text and what click.echo wrote.
echo(message, upper, lower, repeat, output) ==
    IF upper /\ lower
    THEN [error |-> Some("UsageError"), format_calls |-> 0, values |-> <<>>,
          rendered |-> None, stdout |-> <<>>]
    ELSE LET joined0 == JoinTexts(message, <<" ">>)
             joined1 == IF upper THEN Upper(joined0) ELSE joined0
             joined  == IF lower THEN Lower(joined1) ELSE joined1
             values  == [i \in 1..repeat |-> joined]
             r       == format_output(Lower(output), List(StrValues(values)),
                            [raises |-> FALSE, returns |-> JoinTexts(values, <<"\n">>)])
         IN  [error |-> r.error, format_calls |-> 1, values |-> values,
              rendered |-> r.value,
              stdout |-> IF r.value # None THEN r.value[1] \o <<"\n">> ELSE <<>>]

\* ------------------------------------------------------------- environment

PathAlphabet == {"/", ".", "h"}

ShortTexts == Texts(PathAlphabet, MaxLen)

HomeValues == {<<"/", "h">>, <<"/">>}

XdgValues == {None, Some(<<>>), Some(<<"/", "h">>)}

Environs(adoConfigs) ==
    [HOME : HomeValues, XDG_CONFIG_HOME : XdgValues, ADO_CONFIG : adoConfigs]

\* Every default candidate some modelled call can build.
Candidates ==
    UNION { {default_search_paths(hm, e)[1], default_search_paths(hm, e)[2]} :
            hm \in {None} \cup {Some(Path(h)) : h \in HomeValues},
            e \in Environs({None}) }

\* Path arguments: the short texts, and the text of every default candidate.
ArgTexts == ShortTexts \cup {PathStr(p) : p \in Candidates}

OptArgs == {None} \cup {Some(t) : t \in ArgTexts}

\* A few arguments picked to cover: absent, empty, not in normal form, and
\* the text of a default candidate (which is in normal form).
FewArgs ==
    {None, Some(<<>>), Some(<<"h", "/">>),
     Some(PathStr(default_search_paths(Some(Path(<<"/", "h">>)),
                  [HOME |-> <<"/">>, XDG_CONFIG_HOME |-> None, ADO_CONFIG |-> None])[2]))}

HomeArgs == {None} \cup {Some(Path(h)) : h \in HomeValues}

\* Arguments and second environments of the two-environment comparison.
TwiceArgs == {None, Some(<<"h">>)}

OtherEnvirons == Environs(TwiceArgs)

\* ----------------------------------------------------------- output inputs

StrTexts == {<<>>, <<"h">>, <<"1">>, <<"null">>, <<"\"">>, <<"'">>}

Scalars ==
    {StrValue(t) : t \in StrTexts}
    \cup {IntValue(<<"1">>), BoolValue(<<"true">>), NoneValue, DateValue, ObjectValue}

\* Mapping keys: two strings and an int whose text is one of the strings.
Keys == {StrValue(<<"h">>), StrValue(<<"1">>), IntValue(<<"1">>)}

SeqsUpTo(S, n) == UNION {[1..k -> S] : k \in 0..n}

DistinctKeys(items) ==
    \A i, j \in 1..Len(items) : i # j => items[i].key # items[j].key

Payloads ==
    {List(x) : x \in SeqsUpTo(Scalars, MaxItems)}
    \cup {Dict(x) : x \in {d \in SeqsUpTo([key : Keys, val : Scalars], MaxItems) :
                            DistinctKeys(d)}}

Formats == OUTPUT_CHOICES \cup {<<"JSON">>, <<"xml">>}

RenderTexts ==
    {[raises |-> FALSE, returns |-> <<"h">>],
     [raises |-> FALSE, returns |-> <<>>],
     [raises |-> TRUE, returns |-> <<>>]}

\* Message words of the echo command.
Words == {<<>>, <<"a">>, <<"A", "b">>, <<"1">>, <<"null">>}

Messages == SeqsUpTo(Words, MaxWords) \ {<<>>}

\* What click.Choice(OUTPUT_CHOICES, case_sensitive=False) lets through.
OutputOptions == OUTPUT_CHOICES \cup {Upper(c) : c \in OUTPUT_CHOICES}

Idle == [op |-> "idle"]

Init ==
    /\ environ \in Environs(FewArgs)
    /\ fs \in SUBSET Candidates
    /\ call = Idle

\* The output commands read neither the environment nor the filesystem.
InitOutput ==
    /\ environ = [HOME |-> <<"/", "h">>, XDG_CONFIG_HOME |-> None, ADO_CONFIG |-> None]
    /\ fs = {}
    /\ call = Idle

\* ----------------------------------------------------------------- actions

\* A direct call resolve_config_path(explicit_path, env_path, home).
Resolve ==
    /\ call = Idle
    /\ \E explicit_path \in OptArgs, env_path \in OptArgs, home \in HomeArgs :
         /\ explicit_path \in FewArgs \/ env_path \in FewArgs
         /\ call' = [op            |-> "resolve",
                     explicit_path |-> explicit_path,
                     env_path      |-> env_path,
                     home          |-> home,
                     result        |-> resolve_config_path(explicit_path, env_path,
                                                           home, environ, fs)]
    /\ UNCHANGED <<environ, fs>>

\* The same call made in this process and in one with environment other.
ResolveTwice ==
    /\ call = Idle
    /\ \E explicit_path \in TwiceArgs, env_path \in TwiceArgs, home \in HomeArgs,
          other \in OtherEnvirons :
         call' = [op            |-> "resolve_twice",
                  explicit_path |-> explicit_path,
                  env_path      |-> env_path,
                  home          |-> home,
                  other         |-> other,
                  result        |-> resolve_config_path(explicit_path, env_path,
                                                        home, environ, fs),
                  other_result  |-> resolve_config_path(explicit_path, env_path,
                                                        home, other, fs)]
    /\ UNCHANGED <<environ, fs>>

\* `ado [--config X] meta env`: collect_env_info(ctx.obj["config"]).
MetaEnv ==
    /\ call = Idle
    /\ \E config \in OptArgs :
         call' = [op     |-> "meta_env",
                  config |-> config,
                  info   |-> collect_env_info(config, environ, fs)]
    /\ UNCHANGED <<environ, fs>>

\* A direct call format_output(format, payload, render_text).
Format ==
    /\ call = Idle
    /\ \E format \in Formats, payload \in Payloads, render_text \in RenderTexts :
         call' = [op          |-> "format",
                  format      |-> format,
                  payload     |-> payload,
                  render_text |-> render_text,
                  result      |-> format_output(format, payload, render_text)]
    /\ UNCHANGED <<environ, fs>>

\* `ado echo [--upper] [--lower] [--repeat N] [-o FORMAT] MESSAGE...`
Echo ==
    /\ call = Idle
    /\ \E message \in Messages, upper \in BOOLEAN, lower \in BOOLEAN,
          repeat \in 1..MaxRepeat, output \in OutputOptions :
         call' = [op      |-> "echo",
                  message |-> message,
                  upper   |-> upper,
                  lower   |-> lower,
                  repeat  |-> repeat,
                  output  |-> output,
                  result  |-> echo(message, upper, lower, repeat, output)]
    /\ UNCHANGED <<environ, fs>>

Next == Resolve \/ ResolveTwice \/ MetaEnv

Spec == Init /\ [][Next]_vars

NextOutput == Format \/ Echo

SpecOutput == InitOutput /\ [][NextOutput]_vars

\* ------------------------------------------------- claims: config resolution

\* Whether a path text is already in the form str(Path(text)) has: a root of
\* one or exactly two slashes or none, then components that are neither
\* empty nor ".", separated by single slashes; or "." alone.
IsNormalPathText(s) ==
    /\ s # <<>>
    /\ \/ s = <<".">>
       \/ LET body == SubSeq(s, Len(PathRoot(s)) + 1, Len(s))
              comps == Components(body, <<>>)
          IN  IF body = <<>> THEN PathRoot(s) # <<>>
              ELSE \A i \in 1..Len(comps) : comps[i] # <<>> /\ comps[i] # <<".">>

\* The default candidates of the call under way.
Defaults == default_search_paths(call.home, environ)

\* C1: a non-empty explicit path is the resolved path, whatever env_path,
\* home and the filesystem are, and the search order is the explicit path
\* followed by the two default candidates; a path text already in normal
\* form comes back unchanged.
C1_ExplicitWins ==
    (call.op = "resolve" /\ Truthy(call.explicit_path)) =>
        LET e == call.explicit_path[1]
        IN  /\ call.result.resolved = Some(Path(e))
            /\ call.result.search = <<Path(e), Defaults[1], Defaults[2]>>
            /\ (IsNormalPathText(e) => PathStr(call.result.resolved[1]) = e)

\* An explicit path that is not on disk wins over a different env_path while
\* a default candidate exists.
C1_Witness ==
    /\ call.op = "resolve"
    /\ Truthy(call.explicit_path)
    /\ Truthy(call.env_path)
    /\ Path(call.explicit_path[1]) # Path(call.env_path[1])
    /\ Path(call.explicit_path[1]) \notin fs
    /\ Defaults[1] \in fs
    /\ call.result.resolved = Some(Path(call.explicit_path[1]))

\* C2 as stated: with ADO_CONFIG set and no --config, `meta env` reports
\* config_path and config_sources[0] equal to the text of ADO_CONFIG.
C2_Original ==
    (call.op = "meta_env" /\ ~Truthy(call.config) /\ Truthy(environ.ADO_CONFIG)) =>
        /\ call.info.config_path = Some(environ.ADO_CONFIG[1])
        /\ call.info.config_sources[1] = environ.ADO_CONFIG[1]

\* C2 amended: with no explicit path, a non-empty env_path is the resolved
\* path and heads the search order, whatever exists on disk; `meta env`
\* reports ADO_CONFIG as pathlib writes it, which is the text of ADO_CONFIG
\* when that text is in normal form.
C2_EnvPathAsPathlibWritesIt ==
    /\ (call.op = "resolve" /\ ~Truthy(call.explicit_path) /\ Truthy(call.env_path)) =>
          /\ call.result.resolved = Some(Path(call.env_path[1]))
          /\ call.result.search = <<Path(call.env_path[1]), Defaults[1], Defaults[2]>>
    /\ (call.op = "meta_env" /\ ~Truthy(call.config) /\ Truthy(environ.ADO_CONFIG)) =>
          LET v == environ.ADO_CONFIG[1]
          IN  /\ call.info.config_path = Some(PathStr(Path(v)))
              /\ call.info.config_sources[1] = PathStr(Path(v))
              /\ Len(call.info.config_sources) = 3
              /\ (IsNormalPathText(v) => call.info.config_path = Some(v))

\* `meta env` with an ADO_CONFIG that is not in normal form and not on disk,
\* while a default candidate exists.
C2_Witness ==
    /\ call.op = "meta_env"
    /\ ~Truthy(call.config)
    /\ Truthy(environ.ADO_CONFIG)
    /\ ~IsNormalPathText(environ.ADO_CONFIG[1])
    /\ Path(environ.ADO_CONFIG[1]) \notin fs
    /\ fs # {}
    /\ call.info.config_path = Some(PathStr(Path(environ.ADO_CONFIG[1])))

\* C3: with explicit_path and env_path both empty the search order is the
\* two default candidates and the resolved path is the first of them on
\* disk: the first whenever it exists, the second when only it exists, None
\* when neither exists.
C3_FirstExistingDefault ==
    (call.op = "resolve" /\ ~Truthy(call.explicit_path) /\ ~Truthy(call.env_path)) =>
        /\ call.result.search = <<Defaults[1], Defaults[2]>>
        /\ call.result.resolved =
             IF Defaults[1] \in fs THEN Some(Defaults[1])
             ELSE IF Defaults[2] \in fs THEN Some(Defaults[2])
             ELSE None

\* Both default candidates exist and the first is returned.
C3_Witness ==
    /\ call.op = "resolve"
    /\ ~Truthy(call.explicit_path)
    /\ ~Truthy(call.env_path)
    /\ Defaults[1] \in fs
    /\ Defaults[2] \in fs
    /\ call.result.resolved = Some(Defaults[1])

\* The resolved path is one of the paths of the search order.
InSearchOrder(r) ==
    r.resolved # None => \E i \in 1..Len(r.search) : r.search[i] = r.resolved[1]

\* The resolved path is None, the explicit path, the environment path or
\* the first default candidate on disk.
FromAnAllowedSource ==
    \/ call.result.resolved = None
    \/ Truthy(call.explicit_path)
          /\ call.result.resolved = Some(Path(call.explicit_path[1]))
    \/ Truthy(call.env_path)
          /\ call.result.resolved = Some(Path(call.env_path[1]))
    \/ Defaults[1] \in fs /\ call.result.resolved = Some(Defaults[1])
    \/ Defaults[1] \notin fs /\ Defaults[2] \in fs
          /\ call.result.resolved = Some(Defaults[2])

\* The resolved path is a default candidate that is not on disk.
MissingDefault ==
    /\ call.result.resolved # None
    /\ call.result.resolved[1] \in {Defaults[1], Defaults[2]}
    /\ call.result.resolved[1] \notin fs

\* C4 as stated: for every call the search order is non-empty, the resolved
\* path comes from an allowed source and is in the search order, and it is
\* never a default candidate that is not on disk.
C4_Original ==
    call.op = "resolve" =>
        /\ call.result.search # <<>>
        /\ FromAnAllowedSource
        /\ InSearchOrder(call.result)
        /\ ~MissingDefault

\* C4 amended: as stated, except that only a path found by the scan of the
\* defaults (explicit_path and env_path both empty) is never a default
\* candidate missing from disk; an explicit or environment path is returned
\* unchecked, also when it names such a candidate.
C4_ResolvedPathInvariant ==
    call.op = "resolve" =>
        /\ call.result.search # <<>>
        /\ FromAnAllowedSource
        /\ InSearchOrder(call.result)
        /\ (~Truthy(call.explicit_path) /\ ~Truthy(call.env_path)) => ~MissingDefault

\* The scan skips a first candidate that is missing and returns the second.
C4_Witness ==
    /\ call.op = "resolve"
    /\ ~Truthy(call.explicit_path)
    /\ ~Truthy(call.env_path)
    /\ Defaults[1] \notin fs
    /\ Defaults[2] \in fs
    /\ call.result.resolved = Some(Defaults[2])

\* C5 as stated: two calls with the same arguments and filesystem return
\* the same result under any two process environments.
C5_Original ==
    call.op = "resolve_twice" => call.result = call.other_result

\* C5 amended: the result depends on the process environment only through
\* XDG_CONFIG_HOME, and through HOME when no home is passed: two calls with
\* the same arguments and filesystem, under environments that agree on
\* those, return the same result, however the environments differ otherwise.
C5_SameResultWhenXdgAgrees ==
    (/\ call.op = "resolve_twice"
     /\ environ.XDG_CONFIG_HOME = call.other.XDG_CONFIG_HOME
     /\ (call.home = None => environ.HOME = call.other.HOME)) =>
        call.result = call.other_result

\* Two environments that differ in HOME and ADO_CONFIG and agree on a set
\* XDG_CONFIG_HOME; the home is passed and the scan finds a default.
C5_Witness ==
    /\ call.op = "resolve_twice"
    /\ environ.XDG_CONFIG_HOME = call.other.XDG_CONFIG_HOME
    /\ Truthy(environ.XDG_CONFIG_HOME)
    /\ environ.HOME # call.other.HOME
    /\ environ.ADO_CONFIG # call.other.ADO_CONFIG
    /\ call.home # None
    /\ ~Truthy(call.explicit_path)
    /\ ~Truthy(call.env_path)
    /\ call.result.resolved # None
    /\ call.result = call.other_result

\* ------------------------------------------------- claims: output rendering

Structured == {JSON, YAML}

\* C6: for every payload and every format other than "json" and "yaml",
\* format_output calls render_text exactly once, calls no serializer and
\* hands on what render_text returns (or the exception it raises); for
\* "json" and "yaml" render_text is not called.
C6_OtherFormatsCallRenderTextOnce ==
    call.op = "format" =>
        IF call.format \in Structured
        THEN call.result.render_calls = 0
        ELSE /\ call.result.render_calls = 1
             /\ call.result.dump_calls = 0
             /\ ~call.render_text.raises =>
                   /\ call.result.value = Some(call.render_text.returns)
                   /\ call.result.error = None
             /\ call.render_text.raises =>
                   /\ call.result.value = None
                   /\ call.result.error # None

\* A format that differs from "json" only in case, with a payload no
\* serializer represents: the text of render_text comes back.
C6_Witness ==
    /\ call.op = "format"
    /\ call.format = <<"JSON">>
    /\ ObjectValue \in PayloadScalars(call.payload)
    /\ call.result.value = Some(<<"h">>)
    /\ call.result.render_calls = 1

\* A payload of primitives: str, int, bool and None.
Primitive(payload) ==
    \A x \in PayloadScalars(payload) : x.t \in {"str", "int", "bool", "none"}

StringKeys(payload) ==
    payload.kind = "dict" =>
        \A i \in 1..Len(payload.items) : payload.items[i].key.t = "str"

\* The rendered text read back by the parser of its format.
ReadBack ==
    IF call.format = JSON THEN json_loads(call.result.value[1])
    ELSE yaml_safe_load(call.result.value[1])

\* C7 as stated: every mapping or sequence of primitives rendered as json or
\* yaml reads back as itself, keys in insertion order.
C7_Original ==
    (call.op = "format" /\ call.format \in Structured /\ Primitive(call.payload)) =>
        /\ call.result.value # None
        /\ ReadBack = Some(call.payload)

\* C7 amended: as stated for yaml; for json, for the payloads whose mapping
\* keys are all strings (json writes an int key as a string).
C7_RoundTripWithStringKeys ==
    (/\ call.op = "format"
     /\ call.format \in Structured
     /\ Primitive(call.payload)
     /\ call.format = JSON => StringKeys(call.payload)) =>
        /\ call.result.value # None
        /\ ReadBack = Some(call.payload)

\* A mapping rendered as yaml whose keys are not in sorted order, one of
\* them a string of digits, reads back as itself.
C7_Witness ==
    /\ call.op = "format"
    /\ call.format = YAML
    /\ call.payload.kind = "dict"
    /\ Len(call.payload.items) = 2
    /\ call.payload.items[1].key = StrValue(<<"h">>)
    /\ call.payload.items[2].key = StrValue(<<"1">>)
    /\ call.payload.items[1].val = StrValue(<<"null">>)
    /\ call.payload.items[2].val = NoneValue
    /\ ReadBack = Some(call.payload)

\* The payload holds a value the format cannot represent.
Unrepresentable(format, payload) ==
    \/ format = JSON /\ \E x \in PayloadScalars(payload) : ~JsonRepresentable(x)
    \/ format = YAML /\ \E x \in PayloadScalars(payload) : ~YamlRepresentable(x)

EchoValue ==
    LET joined == JoinTexts(call.message, <<" ">>)
    IN  IF call.upper THEN Upper(joined)
        ELSE IF call.lower THEN Lower(joined)
        ELSE joined

\* C9: with at most one of --upper and --lower, echo builds exactly repeat
\* copies of the value, calls format_output once, and writes them: as json a
\* text that reads back as the list of the copies, as text the copies joined
\* by newlines.
C9_EchoRepeatsTheValue ==
    (call.op = "echo" /\ ~(call.upper /\ call.lower)) =>
        LET copies == [i \in 1..call.repeat |-> EchoValue]
        IN  /\ call.result.error = None
            /\ call.result.format_calls = 1
            /\ call.result.values = copies
            /\ call.result.rendered # None
            /\ Lower(call.output) = JSON =>
                  json_loads(call.result.rendered[1])
                     = Some(List(StrValues(copies)))
            /\ Lower(call.output) = TEXT =>
                  call.result.rendered = Some(JoinTexts(copies, <<"\n">>))
            /\ call.result.stdout = call.result.rendered[1] \o <<"\n">>

\* Two words in mixed case, --upper, --repeat 2, -o JSON.
C9_Witness ==
    /\ call.op = "echo"
    /\ call.upper /\ ~call.lower
    /\ call.message = << <<"a">>, <<"A", "b">> >>
    /\ call.repeat = 2
    /\ call.output = <<"JSON">>
    /\ call.result.values = << <<"A", " ", "A", "B">>, <<"A", " ", "A", "B">> >>

\* C10: with both --upper and --lower echo ends with a usage error, for
\* every message, repeat and format; format_output is not called and
\* nothing is written.
C10_ConflictingFlagsAreAUsageError ==
    (call.op = "echo" /\ call.upper /\ call.lower) =>
        /\ call.result.error = Some("UsageError")
        /\ call.result.format_calls = 0
        /\ call.result.rendered = None
        /\ call.result.stdout = <<>>

\* Both flags with a json output and a repeated message.
C10_Witness ==
    /\ call.op = "echo"
    /\ call.upper /\ call.lower
    /\ call.output = JSON
    /\ call.repeat = 2
    /\ call.result.error = Some("UsageError")
    /\ call.result.stdout = <<>>

====
